---- MODULE Spec2Model ----
(***************************************************************************)
(* A model of src/src/lib.rs: the conversion of parsed DXF entities to an  *)
(* SVG string (dxf_to_svg) and its helpers (Bounds, calculate_bounds,      *)
(* is_angle_in_arc, escape_xml_text).                                      *)
(*                                                                         *)
(* Strings are TLA+ strings, handled character by character with Len,      *)
(* SubSeq and \o.  An f64 is a record: a finite value is a sign and a      *)
(* reduced fraction n/d (so that zero has a sign, as in IEEE-754), the     *)
(* other values are the two infinities and NaN.  Arithmetic follows the    *)
(* IEEE-754 rules for these special values and is exact on finite values   *)
(* (binary rounding is not modelled).  Angles in radians are whole numbers *)
(* of sixteenths of a turn (units of PI/8): the entities of the model have *)
(* angles that are multiples of 22.5 degrees.                              *)
(***************************************************************************)
EXTENDS Integers, Sequences, FiniteSets, TLC

VARIABLES call, entities, options, text, svg, stdout, escaped, pc, arc_args, in_arc

vars == <<call, entities, options, text, svg, stdout, escaped, pc, arc_args, in_arc>>

(***************************************************************************)
(* f64                                                                     *)
(***************************************************************************)
RECURSIVE GCD(_, _)
GCD(a, b) == IF b = 0 THEN a ELSE GCD(b, a % b)

Abs(i) == IF i < 0 THEN -i ELSE i

Fin(s, n, d) ==
    LET g == GCD(n, d)
    IN  [c |-> "fin", s |-> s, n |-> n \div g, d |-> d \div g]

Inf(s) == [c |-> "inf", s |-> s, n |-> 0, d |-> 1]

INFINITY == Inf(1)

NEG_INFINITY == Inf(-1)

NAN == [c |-> "nan", s |-> 1, n |-> 0, d |-> 1]

\* an integer literal or an integer-valued f64 literal
F(i) == Fin(IF i < 0 THEN -1 ELSE 1, Abs(i), 1)

\* the f64 n/d, for n >= 0 and d > 0
Frac(n, d) == Fin(1, n, d)

IsNaN(x) == x.c = "nan"

IsFinite(x) == x.c = "fin"

IsZero(x) == x.c = "fin" /\ x.n = 0

FNeg(x) == IF IsNaN(x) THEN x ELSE [x EXCEPT !.s = -x.s]

FAdd(x, y) ==
    IF IsNaN(x) \/ IsNaN(y) THEN NAN
    ELSE IF x.c = "inf" /\ y.c = "inf" THEN (IF x.s = y.s THEN x ELSE NAN)
    ELSE IF x.c = "inf" THEN x
    ELSE IF y.c = "inf" THEN y
    ELSE LET a == x.s * x.n * y.d + y.s * y.n * x.d
         IN  IF a = 0
             THEN Fin(IF x.n = 0 /\ y.n = 0 /\ x.s = -1 /\ y.s = -1 THEN -1 ELSE 1, 0, 1)
             ELSE Fin(IF a < 0 THEN -1 ELSE 1, Abs(a), x.d * y.d)

FSub(x, y) == FAdd(x, FNeg(y))

FMul(x, y) ==
    IF IsNaN(x) \/ IsNaN(y) THEN NAN
    ELSE IF (x.c = "inf" /\ IsZero(y)) \/ (IsZero(x) /\ y.c = "inf") THEN NAN
    ELSE IF x.c = "inf" \/ y.c = "inf" THEN Inf(x.s * y.s)
    ELSE Fin(x.s * y.s, x.n * y.n, x.d * y.d)

FDiv(x, y) ==
    IF IsNaN(x) \/ IsNaN(y) THEN NAN
    ELSE IF x.c = "inf" /\ y.c = "inf" THEN NAN
    ELSE IF x.c = "inf" THEN Inf(x.s * y.s)
    ELSE IF y.c = "inf" THEN Fin(x.s * y.s, 0, 1)
    ELSE IF IsZero(y) THEN (IF IsZero(x) THEN NAN ELSE Inf(x.s * y.s))
    ELSE Fin(x.s * y.s, x.n * y.d, x.d * y.n)

\* x < y on f64: false when either is NaN; -0 and +0 are equal
FLt(x, y) ==
    /\ ~IsNaN(x)
    /\ ~IsNaN(y)
    /\ IF x.c = "inf" THEN x.s = -1 /\ ~(y.c = "inf" /\ y.s = -1)
       ELSE IF y.c = "inf" THEN y.s = 1
       ELSE x.s * x.n * y.d < y.s * y.n * x.d

FGt(x, y) == FLt(y, x)

\* f64::min and f64::max: a NaN operand yields the other operand
FMin(x, y) == IF IsNaN(x) THEN y ELSE IF IsNaN(y) THEN x ELSE IF FLt(y, x) THEN y ELSE x

FMax(x, y) == IF IsNaN(x) THEN y ELSE IF IsNaN(y) THEN x ELSE IF FLt(x, y) THEN y ELSE x

\* f64::sqrt, exact on the squares of whole numbers, rounded down elsewhere
FSqrt(x) ==
    IF IsNaN(x) THEN NAN
    ELSE IF x.c = "inf" THEN (IF x.s = 1 THEN x ELSE NAN)
    ELSE IF x.n = 0 THEN x
    ELSE IF x.s = -1 THEN NAN
    ELSE LET q == x.n \div x.d
         IN  F(CHOOSE r \in 0..q : r * r <= q /\ (r + 1) * (r + 1) > q)

(***************************************************************************)
(* Formatting: "{}" and "{:.3}" of an f64, "{}" of an integer              *)
(***************************************************************************)
RECURSIVE FracDigits(_, _, _)
\* the decimal digits of r/d (0 <= r < d), at most k of them
FracDigits(r, d, k) ==
    IF r = 0 \/ k = 0 THEN ""
    ELSE ToString((r * 10) \div d) \o FracDigits((r * 10) % d, d, k - 1)

SignStr(x) == IF x.s = -1 THEN "-" ELSE ""

\* format!("{}", x) for an f64: the shortest decimal, without a trailing ".0"
Display(x) ==
    IF IsNaN(x) THEN "NaN"
    ELSE IF x.c = "inf" THEN SignStr(x) \o "inf"
    ELSE LET fr == FracDigits(x.n % x.d, x.d, 16)
         IN  SignStr(x) \o ToString(x.n \div x.d) \o (IF fr = "" THEN "" ELSE "." \o fr)

Pad3(i) == IF i < 10 THEN "00" \o ToString(i) ELSE IF i < 100 THEN "0" \o ToString(i) ELSE ToString(i)

\* format!("{:.3}", x) for an f64: three decimals, ties to even
Fmt3(x) ==
    IF IsNaN(x) THEN "NaN"
    ELSE IF x.c = "inf" THEN SignStr(x) \o "inf"
    ELSE LET t == (x.n * 1000) \div x.d
             r == (x.n * 1000) % x.d
             u == IF 2 * r > x.d \/ (2 * r = x.d /\ t % 2 = 1) THEN t + 1 ELSE t
         IN  SignStr(x) \o ToString(u \div 1000) \o "." \o Pad3(u % 1000)

(***************************************************************************)
(* str                                                                     *)
(***************************************************************************)
RECURSIVE Replace(_, _, _)
\* str::replace(from, to) for a one-character pattern
Replace(s, from, to) ==
    IF s = "" THEN ""
    ELSE (IF Head(s) = from THEN to ELSE Head(s)) \o Replace(Tail(s), from, to)

\* str::contains
Contains(s, pat) == \E i \in 1..(Len(s) - Len(pat) + 1) : SubSeq(s, i, i + Len(pat) - 1) = pat

IsWhitespace(ch) == ch \in {" ", "\t", "\n", "\r"}

RECURSIVE TrimStart(_)
TrimStart(s) == IF s # "" /\ IsWhitespace(Head(s)) THEN TrimStart(Tail(s)) ELSE s

RECURSIVE TrimEnd(_)
TrimEnd(s) ==
    IF s # "" /\ IsWhitespace(SubSeq(s, Len(s), Len(s)))
    THEN TrimEnd(SubSeq(s, 1, Len(s) - 1))
    ELSE s

\* str::trim
Trim(s) == TrimStart(TrimEnd(s))

\* (mutant) the ampersand is replaced last
escape_xml_text_AmpLast(t) ==
    Replace(Replace(Replace(Replace(Replace(t, "<", "&lt;"), ">", "&gt;"), "\"", "&quot;"), "'", "&apos;"), "&", "&amp;")

\* Escape special characters in XML text content
escape_xml_text(t) ==
    Replace(Replace(Replace(Replace(Replace(t, "&", "&amp;"), "<", "&lt;"), ">", "&gt;"), "\"", "&quot;"), "'", "&apos;")

(***************************************************************************)
(* Angles.  A value in radians is a whole number of sixteenths of a turn   *)
(* (PI is 8 of them); cosine and sine are exact at the multiples of a      *)
(* quarter turn and rounded to three decimals in between.                  *)
(***************************************************************************)
PI == 8

\* f64::to_radians, for an angle in degrees that is a multiple of 22.5
to_radians(deg) == deg.s * ((deg.n * 2) \div (deg.d * 45))

\* f64::to_degrees, for an angle in sixteenths of a turn
to_degrees(rad) == Fin(IF rad < 0 THEN -1 ELSE 1, Abs(rad) * 45, 2)

\* the f64 remainder a % m (m > 0): truncated, with the sign of a
Rem(a, m) == IF a >= 0 THEN a % m ELSE -((-a) % m)

CosTable == <<1000, 924, 707, 383, 0>>

\* cos of k sixteenths of a turn
cos(k) ==
    LET j == k % 16
        m == IF j <= 4 THEN j ELSE IF j <= 8 THEN 8 - j ELSE IF j <= 12 THEN j - 8 ELSE 16 - j
        v == CosTable[m + 1]
    IN  Fin(IF j > 4 /\ j < 12 /\ v # 0 THEN -1 ELSE 1, v, 1000)

\* sin of k sixteenths of a turn
sin(k) == cos(k - 4)

\* f64::atan2(y, x), in sixteenths of a turn, for the eight principal directions
atan2(y, x) ==
    LET sx == IF IsZero(x) THEN 0 ELSE x.s
        sy == IF IsZero(y) THEN 0 ELSE y.s
    IN  CASE sy = 0 /\ sx >= 0 -> 0
          [] sy = 0 /\ sx < 0 -> 8
          [] sx = 0 /\ sy > 0 -> 4
          [] sx = 0 /\ sy < 0 -> -4
          [] sx > 0 /\ sy > 0 /\ x.n * y.d = y.n * x.d -> 2
          [] sx < 0 /\ sy > 0 /\ x.n * y.d = y.n * x.d -> 6
          [] sx > 0 /\ sy < 0 /\ x.n * y.d = y.n * x.d -> -2
          [] sx < 0 /\ sy < 0 /\ x.n * y.d = y.n * x.d -> -6

is_angle_in_arc(angle, start, end) ==
    LET a0 == Rem(angle, 2 * PI)
        s0 == Rem(start, 2 * PI)
        e0 == Rem(end, 2 * PI)
        e1 == IF s0 > e0 THEN e0 + 2 * PI ELSE e0
        a1 == IF s0 > e0 /\ a0 < s0 THEN a0 + 2 * PI ELSE a0
    IN  a1 >= s0 /\ a1 <= e1

(***************************************************************************)
(* Bounds                                                                  *)
(***************************************************************************)
\* Bounds::new
BoundsNew ==
    [min_x |-> INFINITY, min_y |-> INFINITY, max_x |-> NEG_INFINITY, max_y |-> NEG_INFINITY]

\* Bounds::update
update(b, x, y) ==
    [min_x |-> FMin(b.min_x, x), min_y |-> FMin(b.min_y, y),
     max_x |-> FMax(b.max_x, x), max_y |-> FMax(b.max_y, y)]

\* Bounds::with_padding
with_padding(b, padding_percent) ==
    LET width == FSub(b.max_x, b.min_x)
        height == FSub(b.max_y, b.min_y)
        padding_x == FMul(width, padding_percent)
        padding_y == FMul(height, padding_percent)
    IN  [min_x |-> FSub(b.min_x, padding_x), min_y |-> FSub(b.min_y, padding_y),
         max_x |-> FAdd(b.max_x, padding_x), max_y |-> FAdd(b.max_y, padding_y)]

RECURSIVE UpdateEach(_, _)
\* for vertex in vertices { bounds.update(vertex.x, vertex.y) }
UpdateEach(b, pts) ==
    IF pts = <<>> THEN b ELSE UpdateEach(update(b, Head(pts).x, Head(pts).y), Tail(pts))

RECURSIVE UpdateExtremes(_, _, _, _, _)
\* the loop over the extreme angles of an arc
UpdateExtremes(b, arc, angles, start_angle, end_angle) ==
    IF angles = <<>> THEN b
    ELSE LET angle == Head(angles)
             b1 == IF is_angle_in_arc(angle, start_angle, end_angle)
                   THEN update(b, FAdd(arc.center.x, FMul(arc.radius, cos(angle))),
                                  FAdd(arc.center.y, FMul(arc.radius, sin(angle))))
                   ELSE b
         IN  UpdateExtremes(b1, arc, Tail(angles), start_angle, end_angle)

Locations(vertices) == [i \in 1..Len(vertices) |-> vertices[i].location]

Corners(f) == <<f.first_corner, f.second_corner, f.third_corner, f.fourth_corner>>

\* one iteration of the loop of calculate_bounds
BoundsOfEntity(b, entity) ==
    LET e == entity.specific
    IN  CASE entity.kind = "Line" ->
                 update(update(b, e.p1.x, e.p1.y), e.p2.x, e.p2.y)
          [] entity.kind = "Circle" ->
                 update(update(b, FSub(e.center.x, e.radius), FSub(e.center.y, e.radius)),
                        FAdd(e.center.x, e.radius), FAdd(e.center.y, e.radius))
          [] entity.kind = "Arc" ->
                 LET start_angle == to_radians(e.start_angle)
                     end_angle == to_radians(e.end_angle)
                     b1 == update(b, FAdd(e.center.x, FMul(e.radius, cos(start_angle))),
                                     FAdd(e.center.y, FMul(e.radius, sin(start_angle))))
                     b2 == update(b1, FAdd(e.center.x, FMul(e.radius, cos(end_angle))),
                                      FAdd(e.center.y, FMul(e.radius, sin(end_angle))))
                 IN  UpdateExtremes(b2, e, <<0, PI \div 2, PI, (3 * PI) \div 2>>,
                                    start_angle, end_angle)
          [] entity.kind = "LwPolyline" -> UpdateEach(b, e.vertices)
          [] entity.kind = "Polyline" -> UpdateEach(b, Locations(e.vertices))
          [] entity.kind = "Ellipse" ->
                 LET major_axis_length ==
                         FSqrt(FAdd(FMul(e.major_axis.x, e.major_axis.x),
                                    FMul(e.major_axis.y, e.major_axis.y)))
                     minor_axis_length == FMul(major_axis_length, e.minor_axis_ratio)
                 IN  update(update(b, FSub(e.center.x, major_axis_length),
                                      FSub(e.center.y, minor_axis_length)),
                            FAdd(e.center.x, major_axis_length),
                            FAdd(e.center.y, minor_axis_length))
          [] entity.kind \in {"Text", "ModelPoint"} -> update(b, e.location.x, e.location.y)
          [] entity.kind \in {"Face3D", "Solid", "Trace"} -> UpdateEach(b, Corners(e))
          [] entity.kind = "Leader" -> UpdateEach(b, e.vertices)
          [] entity.kind = "Helix" ->
                 LET b1 == update(b, e.axis_base_point.x, e.axis_base_point.y)
                     b2 == update(b1, e.start_point.x, e.start_point.y)
                     b3 == update(b2, FAdd(e.axis_base_point.x, e.radius),
                                      FAdd(e.axis_base_point.y, e.radius))
                 IN  update(b3, FSub(e.axis_base_point.x, e.radius),
                                FSub(e.axis_base_point.y, e.radius))
          [] entity.kind = "Shape" ->
                 LET b1 == update(b, e.location.x, e.location.y)
                     b2 == update(b1, FAdd(e.location.x, e.size), FAdd(e.location.y, e.size))
                 IN  update(b2, FSub(e.location.x, e.size), FSub(e.location.y, e.size))
          [] OTHER -> b

RECURSIVE BoundsFrom(_, _)
BoundsFrom(b, es) == IF es = <<>> THEN b ELSE BoundsFrom(BoundsOfEntity(b, Head(es)), Tail(es))

calculate_bounds(es) == BoundsFrom(BoundsNew, es)

(***************************************************************************)
(* SvgOptions                                                              *)
(***************************************************************************)
\* impl Default for SvgOptions
SvgOptionsDefault ==
    [use_bounds |-> TRUE, padding |-> Frac(1, 10), background_color |-> "white",
     stroke_width |-> F(1), default_color |-> "black"]

\* Option<SvgOptions>
None == [some |-> FALSE]

Some(value) == [some |-> TRUE, value |-> value]

\* Option::unwrap_or_default
unwrap_or_default(opt) == IF opt.some THEN opt.value ELSE SvgOptionsDefault

(***************************************************************************)
(* dxf_to_svg                                                              *)
(***************************************************************************)
\* the root element with the computed viewBox, and the transform group
SvgOpenBounds(bounds) ==
    LET width == FSub(bounds.max_x, bounds.min_x)
        height == FSub(bounds.max_y, bounds.min_y)
        aspect_ratio == FDiv(width, height)
    IN  "<svg xmlns=\"http://www.w3.org/2000/svg\" xmlns:xlink=\"http://www.w3.org/1999/xlink\" \n"
        \o "            viewBox=\"" \o ToString(0) \o " " \o ToString(0) \o " "
        \o Display(F(1000)) \o " " \o Display(FDiv(F(1000), aspect_ratio))
        \o "\" width=\"100%\" height=\"100%\" \n"
        \o "            preserveAspectRatio=\"xMidYMid meet\">"
        \o "<g transform=\"scale(" \o Display(FDiv(F(1000), width)) \o ", "
        \o Display(FDiv(F(-1000), width)) \o ") translate("
        \o Display(FNeg(bounds.min_x)) \o ", " \o Display(FNeg(bounds.max_y)) \o ")\">"

\* the root element with the fixed viewBox
SvgOpenFixed ==
    "<svg xmlns=\"http://www.w3.org/2000/svg\" viewBox=\"0 0 100 100\" xmlns:xlink=\"http://www.w3.org/1999/xlink\">"

\* (mutant) the use_bounds flag is not consulted
SvgOpen_IgnoresFlag(opts, bounds) == SvgOpenBounds(bounds)

\* the root element and, with use_bounds, the transform group
SvgOpen(opts, bounds) == IF opts.use_bounds THEN SvgOpenBounds(bounds) ELSE SvgOpenFixed

\* the numbers of the transform group: scale(scale_x, scale_y) translate(translate_x, translate_y)
Transform(bounds) ==
    LET width == FSub(bounds.max_x, bounds.min_x)
    IN  [scale_x |-> FDiv(F(1000), width), scale_y |-> FDiv(F(-1000), width),
         translate_x |-> FNeg(bounds.min_x), translate_y |-> FNeg(bounds.max_y)]

\* the numbers of the background rectangle
BackgroundRect(bounds) ==
    [x |-> bounds.min_x, y |-> FNeg(bounds.max_y),
     width |-> FSub(bounds.max_x, bounds.min_x), height |-> FSub(bounds.max_y, bounds.min_y)]

\* the background rectangle
Background(opts, bounds) ==
    LET width == FSub(bounds.max_x, bounds.min_x)
        height == FSub(bounds.max_y, bounds.min_y)
    IN  IF opts.background_color # "none"
        THEN "<rect x=\"" \o Display(bounds.min_x) \o "\" y=\"" \o Display(FNeg(bounds.max_y))
             \o "\" width=\"" \o Display(width) \o "\" height=\"" \o Display(height)
             \o "\" fill=\"" \o opts.background_color \o "\"/>"
        ELSE ""

\* (mutant) the color name is not trimmed
Color_NoTrim(entity, opts) ==
    IF entity.common.color_name = "" THEN opts.default_color
    ELSE entity.common.color_name

\* the effective stroke color of an entity
Color(entity, opts) ==
    IF Trim(entity.common.color_name) = "" THEN opts.default_color
    ELSE entity.common.color_name

StrokeAttr(entity, opts) ==
    "stroke=\"" \o Color(entity, opts) \o "\" stroke-width=\"" \o Display(opts.stroke_width) \o "\""

RECURSIVE JoinPoints(_)
\* vertices.iter().map(|p| format!("{:.3},{:.3}", p.x, p.y)).collect().join(" ")
JoinPoints(pts) ==
    IF pts = <<>> THEN ""
    ELSE Fmt3(Head(pts).x) \o "," \o Fmt3(Head(pts).y)
         \o (IF Len(pts) > 1 THEN " " ELSE "") \o JoinPoints(Tail(pts))

\* the four-corner polygon of Face3D, Solid and Trace
Polygon(f, stroke_attr) == "<polygon points=\"" \o JoinPoints(Corners(f)) \o "\" " \o stroke_attr \o " />"

RECURSIVE SplineIndices(_, _)
\* the values that i takes in the iterations of the while loop of the Spline arm, for
\* len control points (len >= 2, so that len - 2 does not underflow)
SplineIndices(len, i) == IF i < len - 2 THEN <<i>> \o SplineIndices(len, i + 3) ELSE <<>>

\* the indices of points that the Spline arm reads: 0, and i, i + 1, i + 2 in each iteration
SplineReads(len) ==
    LET is == SplineIndices(len, 1)
    IN  {0} \cup UNION {{is[k], is[k] + 1, is[k] + 2} : k \in 1..Len(is)}

RECURSIVE SplineCurves_Overlap(_, _)
\* (mutant) the loop steps by one: the groups of three overlap
SplineCurves_Overlap(points, i) ==
    IF i < Len(points) - 2
    THEN "C " \o Fmt3(points[i + 1].x) \o "," \o Fmt3(points[i + 1].y) \o " "
         \o Fmt3(points[i + 2].x) \o "," \o Fmt3(points[i + 2].y) \o " "
         \o Fmt3(points[i + 3].x) \o "," \o Fmt3(points[i + 3].y) \o " "
         \o SplineCurves_Overlap(points, i + 1)
    ELSE ""

RECURSIVE SplineCurves(_, _)
\* the while loop of the Spline arm, from index i (0-based)
SplineCurves(points, i) ==
    IF i < Len(points) - 2
    THEN "C " \o Fmt3(points[i + 1].x) \o "," \o Fmt3(points[i + 1].y) \o " "
         \o Fmt3(points[i + 2].x) \o "," \o Fmt3(points[i + 2].y) \o " "
         \o Fmt3(points[i + 3].x) \o "," \o Fmt3(points[i + 3].y) \o " "
         \o SplineCurves(points, i + 3)
    ELSE ""

\* the cast `as i32` of an f64: truncating, saturating, 0 for NaN
AsI32(x) ==
    IF IsNaN(x) THEN 0
    ELSE IF x.c = "inf" THEN x.s * 2147483647
    ELSE LET t == x.n \div x.d
         IN  IF t > 2147483647 THEN x.s * 2147483647 ELSE x.s * t

RECURSIVE HelixSegments(_, _, _)
\* the for loop of the Helix arm, from sample i
HelixSegments(helix, i, total_points) ==
    IF i > total_points THEN ""
    ELSE LET angle == i
             radius == FDiv(FMul(helix.radius, F(i)), F(total_points))
             x == FAdd(helix.axis_base_point.x, FMul(radius, cos(angle)))
             y == FAdd(helix.axis_base_point.y, FMul(radius, sin(angle)))
         IN  "L " \o Fmt3(x) \o "," \o Fmt3(y) \o " " \o HelixSegments(helix, i + 1, total_points)

ArrowheadDefs ==
    "<defs>\n"
    \o "                            <marker id=\"arrowhead\" markerWidth=\"10\" markerHeight=\"7\" \n"
    \o "                            refX=\"9\" refY=\"3.5\" orient=\"auto\">\n"
    \o "                                <polygon points=\"0 0, 10 3.5, 0 7\" fill=\"black\"/>\n"
    \o "                            </marker>\n"
    \o "                        </defs>"

\* the test that guards the insertion of the arrowhead marker
MarkerPresent(out) == Contains(out, "def id=\"arrowhead\"")

\* the Leader arm, after the test for no vertices
RenderLeader(out, leader, stroke_attr) ==
    LET line == out \o "<polyline points=\"" \o JoinPoints(leader.vertices) \o "\" "
                    \o stroke_attr \o " marker-end=\"url(#arrowhead)\" />"
    IN  IF ~MarkerPresent(line) THEN line \o ArrowheadDefs ELSE line

\* the text content of the Text arm
TextContent(t) == escape_xml_text(t.value)

\* the text content of the RotatedDimension arm
DimensionContent(dimension) == dimension.dimension_base.text

\* the arms of the match that push one element
RenderSimple(entity, stroke_attr) ==
    LET e == entity.specific
    IN  CASE entity.kind = "Line" ->
                 "<line x1=\"" \o Fmt3(e.p1.x) \o "\" y1=\"" \o Fmt3(e.p1.y) \o "\" x2=\""
                 \o Fmt3(e.p2.x) \o "\" y2=\"" \o Fmt3(e.p2.y) \o "\" " \o stroke_attr
                 \o " fill=\"none\" />"
          [] entity.kind = "Insert" ->
                 "<use href=\"" \o "#" \o e.name \o "\" x=\"" \o Fmt3(e.location.x) \o "\" y=\""
                 \o Fmt3(e.location.y) \o "\" width=\"" \o Fmt3(e.x_scale_factor)
                 \o "\" height=\"" \o Fmt3(e.y_scale_factor) \o "\" />"
          [] entity.kind = "LwPolyline" ->
                 "<polyline points=\"" \o JoinPoints(e.vertices) \o "\" " \o stroke_attr \o " />"
          [] entity.kind = "Polyline" ->
                 "<polyline points=\"" \o JoinPoints(Locations(e.vertices)) \o "\" "
                 \o stroke_attr \o " />"
          [] entity.kind = "Circle" ->
                 "<circle cx=\"" \o Fmt3(e.center.x) \o "\" cy=\"" \o Fmt3(e.center.y)
                 \o "\" r=\"" \o Fmt3(e.radius) \o "\" " \o stroke_attr \o " />"
          [] entity.kind = "Arc" ->
                 LET start_angle == to_radians(e.start_angle)
                     end_angle == to_radians(e.end_angle)
                     start_x == FAdd(e.center.x, FMul(e.radius, cos(start_angle)))
                     start_y == FAdd(e.center.y, FMul(e.radius, sin(start_angle)))
                     end_x == FAdd(e.center.x, FMul(e.radius, cos(end_angle)))
                     end_y == FAdd(e.center.y, FMul(e.radius, sin(end_angle)))
                     sweep == IF end_angle > start_angle THEN 1 ELSE 0
                     large_arc == IF Rem(Abs(end_angle - start_angle), 2 * PI) > PI THEN 1 ELSE 0
                 IN  "<path d=\"M " \o Fmt3(start_x) \o "," \o Fmt3(start_y) \o " A "
                     \o Fmt3(e.radius) \o "," \o Fmt3(e.radius) \o " 0 " \o ToString(large_arc)
                     \o " " \o ToString(sweep) \o " " \o Fmt3(end_x) \o "," \o Fmt3(end_y)
                     \o "\" " \o stroke_attr \o " />"
          [] entity.kind = "Ellipse" ->
                 LET major_axis_length ==
                         FSqrt(FAdd(FMul(e.major_axis.x, e.major_axis.x),
                                    FMul(e.major_axis.y, e.major_axis.y)))
                     rotation == to_degrees(atan2(e.major_axis.y, e.major_axis.x))
                 IN  "<ellipse cx=\"" \o Fmt3(e.center.x) \o "\" cy=\"" \o Fmt3(e.center.y)
                     \o "\" rx=\"" \o Fmt3(major_axis_length) \o "\" ry=\""
                     \o Fmt3(FMul(major_axis_length, e.minor_axis_ratio))
                     \o "\" transform=\"rotate(" \o Fmt3(rotation) \o " " \o Display(e.center.x)
                     \o " " \o Display(e.center.y) \o ")\" " \o stroke_attr \o " />"
          [] entity.kind = "Spline" ->
                 LET points == e.control_points
                     path == "M " \o Fmt3(points[1].x) \o "," \o Fmt3(points[1].y) \o " "
                             \o SplineCurves(points, 1)
                 IN  "<path d=\"" \o Trim(path) \o "\" " \o stroke_attr \o " />"
          [] entity.kind = "Text" ->
                 "<text x=\"" \o Fmt3(e.location.x) \o "\" y=\"" \o Fmt3(e.location.y) \o "\" "
                 \o stroke_attr \o ">" \o TextContent(e) \o "</text>"
          [] entity.kind = "ModelPoint" ->
                 "<circle cx=\"" \o Fmt3(e.location.x) \o "\" cy=\"" \o Fmt3(e.location.y)
                 \o "\" r=\"1\" " \o stroke_attr \o " />"
          [] entity.kind \in {"Face3D", "Solid", "Trace"} -> Polygon(e, stroke_attr)
          [] entity.kind = "Helix" ->
                 LET turns == AsI32(e.number_of_turns)
                     points_per_turn == 16
                     total_points == turns * points_per_turn
                     path == "M " \o Fmt3(e.start_point.x) \o "," \o Fmt3(e.start_point.y) \o " "
                             \o HelixSegments(e, 1, total_points)
                 IN  "<path d=\"" \o Trim(path) \o "\" " \o stroke_attr \o " />"
          [] entity.kind = "Shape" ->
                 LET half_size == FDiv(e.size, F(2))
                 IN  "<rect x=\"" \o Fmt3(FSub(e.location.x, half_size)) \o "\" y=\""
                     \o Fmt3(FSub(e.location.y, half_size)) \o "\" width=\"" \o Fmt3(e.size)
                     \o "\" height=\"" \o Fmt3(e.size) \o "\" \n"
                     \o "                    transform=\"rotate(" \o Fmt3(e.rotation_angle) \o " "
                     \o Display(e.location.x) \o " " \o Display(e.location.y) \o ")\" "
                     \o stroke_attr \o " />"
          [] entity.kind = "RotatedDimension" ->
                 LET start_point == e.definition_point_2
                     end_point == e.definition_point_3
                     text_position == e.insertion_point
                     measurement == DimensionContent(e)
                 IN  "<line x1=\"" \o Display(start_point.x) \o "\" y1=\"" \o Display(start_point.y)
                     \o "\" x2=\"" \o Display(end_point.x) \o "\" y2=\"" \o Display(end_point.y)
                     \o "\" " \o stroke_attr \o " />"
                     \o "<text x=\"" \o Display(text_position.x) \o "\" y=\""
                     \o Display(text_position.y) \o "\" " \o stroke_attr
                     \o " font-size=\"12\" text-anchor=\"middle\">" \o measurement \o "</text>"

\* the entity kinds with an arm in the match of dxf_to_svg
RenderedKinds ==
    {"Line", "Insert", "LwPolyline", "Polyline", "Circle", "Arc", "Ellipse", "Spline", "Text",
     "ModelPoint", "Face3D", "Solid", "Leader", "Helix", "Trace", "Shape", "RotatedDimension"}

\* (mutant) a Leader without vertices is not skipped
Skipped_LeaderKept(entity) ==
    \/ entity.kind = "LwPolyline" /\ Len(entity.specific.vertices) = 0
    \/ entity.kind = "Polyline" /\ Len(entity.specific.vertices) = 0
    \/ entity.kind = "Spline" /\ Len(entity.specific.control_points) < 2
    \/ entity.kind \notin RenderedKinds

\* (mutant) an LwPolyline without vertices is not skipped
Skipped_LwPolylineKept(entity) ==
    \/ entity.kind = "Polyline" /\ Len(entity.specific.vertices) = 0
    \/ entity.kind = "Spline" /\ Len(entity.specific.control_points) < 2
    \/ entity.kind = "Leader" /\ Len(entity.specific.vertices) = 0
    \/ entity.kind \notin RenderedKinds

\* the tests that end an iteration of the loop with `continue`
Skipped(entity) ==
    \/ entity.kind = "LwPolyline" /\ Len(entity.specific.vertices) = 0
    \/ entity.kind = "Polyline" /\ Len(entity.specific.vertices) = 0
    \/ entity.kind = "Spline" /\ Len(entity.specific.control_points) < 2
    \/ entity.kind = "Leader" /\ Len(entity.specific.vertices) = 0
    \/ entity.kind \notin RenderedKinds

\* one iteration of the entity loop: the output buffer after it
RenderEntity(out, entity, opts) ==
    LET stroke_attr == StrokeAttr(entity, opts)
    IN  IF Skipped(entity) THEN out
        ELSE IF entity.kind = "Leader" THEN RenderLeader(out, entity.specific, stroke_attr)
        ELSE out \o RenderSimple(entity, stroke_attr)

\* what one iteration of the entity loop prints
PrintEntity(entity) ==
    IF entity.kind \notin RenderedKinds
    THEN <<"Unsupported entity type: \"" \o entity.common.layer \o "\"">>
    ELSE <<>>

RECURSIVE RenderAll_Break(_, _, _)
\* (mutant) the loop ends at the first entity without an arm
RenderAll_Break(out, es, opts) ==
    IF es = <<>> \/ Head(es).kind \notin RenderedKinds THEN out
    ELSE RenderAll_Break(RenderEntity(out, Head(es), opts), Tail(es), opts)

RECURSIVE RenderAll(_, _, _)
\* the entity loop of dxf_to_svg
RenderAll(out, es, opts) ==
    IF es = <<>> THEN out ELSE RenderAll(RenderEntity(out, Head(es), opts), Tail(es), opts)

RECURSIVE PrintAll(_)
PrintAll(es) == IF es = <<>> THEN <<>> ELSE PrintEntity(Head(es)) \o PrintAll(Tail(es))

\* (mutant) the transform group is not closed
SvgClose_NoGroup(opts) == "</svg>"

\* the closing tags
SvgClose(opts) == (IF opts.use_bounds THEN "</g>" ELSE "") \o "</svg>"

dxf_to_svg(es, opt) ==
    LET opts == unwrap_or_default(opt)
        bounds == with_padding(calculate_bounds(es), opts.padding)
    IN  RenderAll(SvgOpen(opts, bounds) \o Background(opts, bounds), es, opts) \o SvgClose(opts)

(***************************************************************************)
(* The inputs of the model                                                 *)
(***************************************************************************)
MaxEntities == 3

MaxTextLen == 3

P(x, y) == [x |-> F(x), y |-> F(y)]

V(x, y) == [location |-> P(x, y)]

Entity(kind, color_name, specific) ==
    [kind |-> kind, common |-> [color_name |-> color_name, layer |-> "0"], specific |-> specific]

Face(a, b, c, d) == [first_corner |-> a, second_corner |-> b, third_corner |-> c, fourth_corner |-> d]

Entities ==
    { Entity("Line", "", [p1 |-> P(0, 0), p2 |-> P(1, 1)]),
      Entity("Insert", "", [name |-> "B1", location |-> P(1, 2), x_scale_factor |-> F(1),
                            y_scale_factor |-> F(1)]),
      Entity("LwPolyline", "", [vertices |-> <<>>]),
      Entity("LwPolyline", "", [vertices |-> <<P(3, 2)>>]),
      Entity("LwPolyline", "red", [vertices |-> <<P(0, 0), P(2, 1)>>]),
      Entity("Polyline", "", [vertices |-> <<>>]),
      Entity("Polyline", "", [vertices |-> <<V(5, 0)>>]),
      Entity("Circle", " red", [center |-> P(0, 0), radius |-> F(2)]),
      Entity("Arc", "", [center |-> P(0, 0), radius |-> F(1), start_angle |-> F(0),
                         end_angle |-> F(90)]),
      Entity("Ellipse", "", [center |-> P(1, 1), major_axis |-> P(0, 2),
                             minor_axis_ratio |-> Frac(1, 2)]),
      Entity("Spline", "", [control_points |-> <<P(0, 0)>>]),
      Entity("Spline", "", [control_points |-> <<P(0, 0), P(1, 2), P(2, 2), P(3, 0)>>]),
      Entity("Text", "", [value |-> "a<b & 'c'", location |-> P(2, 2)]),
      Entity("ModelPoint", " \t", [location |-> P(-1, -1)]),
      Entity("Face3D", "", Face(P(0, 0), P(1, 0), P(1, 1), P(0, 1))),
      Entity("Solid", "", Face(P(0, 0), P(2, 0), P(2, 2), P(0, 2))),
      Entity("Trace", "", Face(P(0, 0), P(3, 0), P(3, 1), P(0, 1))),
      Entity("Leader", "", [vertices |-> <<>>]),
      Entity("Leader", "blue", [vertices |-> <<P(2, 5)>>]),
      Entity("Helix", "", [axis_base_point |-> P(0, 0), start_point |-> P(2, 0), radius |-> F(0),
                           number_of_turns |-> F(1)]),
      Entity("Shape", "", [location |-> P(1, 1), size |-> F(2), rotation_angle |-> F(45)]),
      Entity("RotatedDimension", "", [definition_point_2 |-> P(0, 0), definition_point_3 |-> P(4, 0),
                                      insertion_point |-> P(2, 1),
                                      dimension_base |-> [text |-> "<> \"mm\""]]),
      Entity("MText", "", [text |-> "note"]) }

\* the largest number of control points of a spline
MaxPoints == 8

\* n control points, all different
ControlPoints(n) == [k \in 1..n |-> P(k - 1, (k * k) % 7)]

\* a spline for every number of control points up to MaxPoints
Splines == {Entity("Spline", "", [control_points |-> ControlPoints(n)]) : n \in 0..MaxPoints}

\* the entities of the longest lists
CoreEntities ==
    {e \in Entities :
        \/ e.kind \in {"Line", "MText", "RotatedDimension", "Text", "ModelPoint"}
        \/ e.kind = "Leader" /\ e.specific.vertices # <<>>
        \/ e.kind = "LwPolyline" /\ e.specific.vertices = <<>>}

\* every entity alone, every ordered pair of entities, every list of at most
\* MaxEntities core entities, and every spline alone
EntityLists ==
    {<<e>> : e \in Entities} \cup (Entities \X Entities)
        \cup UNION {[1..n -> CoreEntities] : n \in 0..MaxEntities}
        \cup {<<e>> : e \in Splines}

Options ==
    { None,
      Some([use_bounds |-> FALSE, padding |-> F(1), background_color |-> "white",
            stroke_width |-> F(1), default_color |-> "black"]),
      Some([use_bounds |-> FALSE, padding |-> F(0), background_color |-> "none",
            stroke_width |-> F(2), default_color |-> "green"]),
      Some([use_bounds |-> TRUE, padding |-> F(0), background_color |-> "none",
            stroke_width |-> Frac(1, 2), default_color |-> "blue"]) }

Chars == {"&", "<", ">", "\"", "'", "a", ";"}

RECURSIVE Strings(_)
\* the strings over Chars of length at most k
Strings(k) ==
    IF k = 0 THEN {""}
    ELSE LET shorter == Strings(k - 1)
         IN  shorter \cup {ch \o t : ch \in Chars, t \in {u \in shorter : Len(u) = k - 1}}

Texts == Strings(MaxTextLen) \cup {"Test & <example>", "&amp;", "a &lt; b"}

\* the largest angle given to is_angle_in_arc, in sixteenths of a turn (a turn and a quarter)
MaxAngle == 20

\* angles from -MaxAngle to MaxAngle: negative ones, and ones of a whole turn or more
Angles == -MaxAngle..MaxAngle

NoAngles == [angle |-> 0, start |-> 0, end |-> 0]

(***************************************************************************)
(* The state machine: one call of dxf_to_svg or of escape_xml_text         *)
(***************************************************************************)
Init ==
    /\ pc = "ready"
    /\ svg = ""
    /\ stdout = <<>>
    /\ escaped = ""
    /\ arc_args = NoAngles
    /\ in_arc = FALSE
    /\ \/ /\ call = "dxf_to_svg"
          /\ entities \in EntityLists
          /\ options \in Options
          /\ text = ""
       \/ /\ call = "escape_xml_text"
          /\ entities = <<>>
          /\ options = None
          /\ text \in Texts

DxfToSvg ==
    /\ pc = "ready"
    /\ call = "dxf_to_svg"
    /\ svg' = dxf_to_svg(entities, options)
    /\ stdout' = PrintAll(entities)
    /\ pc' = "done"
    /\ UNCHANGED <<call, entities, options, text, escaped, arc_args, in_arc>>

EscapeXmlText ==
    /\ pc = "ready"
    /\ call = "escape_xml_text"
    /\ escaped' = escape_xml_text(text)
    /\ pc' = "done"
    /\ UNCHANGED <<call, entities, options, text, svg, stdout, arc_args, in_arc>>

Next == DxfToSvg \/ EscapeXmlText

Spec == Init /\ [][Next]_vars

(***************************************************************************)
(* The state machine of one call of is_angle_in_arc                        *)
(***************************************************************************)
InitArc ==
    /\ pc = "ready"
    /\ call = "is_angle_in_arc"
    /\ arc_args \in [angle : Angles, start : Angles, end : Angles]
    /\ in_arc = FALSE
    /\ entities = <<>>
    /\ options = None
    /\ text = ""
    /\ svg = ""
    /\ stdout = <<>>
    /\ escaped = ""

IsAngleInArc ==
    /\ pc = "ready"
    /\ call = "is_angle_in_arc"
    /\ in_arc' = is_angle_in_arc(arc_args.angle, arc_args.start, arc_args.end)
    /\ pc' = "done"
    /\ UNCHANGED <<call, entities, options, text, svg, stdout, escaped, arc_args>>

NextArc == IsAngleInArc

SpecArc == InitArc /\ [][NextArc]_vars

(***************************************************************************)
(* Reading the output back: tags, elements and attribute values            *)
(***************************************************************************)
CharAt(s, i) == SubSeq(s, i, i)

Indices(n) == [i \in 1..n |-> i]

\* the positions of s that hold one of chars, in increasing order
Marks(s, chars) == SelectSeq(Indices(Len(s)), LAMBDA i : CharAt(s, i) \in chars)

Letters ==
    {"a", "b", "c", "d", "e", "f", "g", "h", "i", "j", "k", "l", "m", "n", "o", "p", "q", "r",
     "s", "t", "u", "v", "w", "x", "y", "z"}

RECURSIVE RunLength(_, _, _)
\* the number of characters of s from position i on that are not in stops
RunLength(s, i, stops) ==
    IF i > Len(s) \/ CharAt(s, i) \in stops THEN 0 ELSE 1 + RunLength(s, i + 1, stops)

RECURSIVE RunBack(_, _, _)
\* the number of characters of s from position i backwards that are not in stops
RunBack(s, i, stops) ==
    IF i < 1 \/ CharAt(s, i) \in stops THEN 0 ELSE 1 + RunBack(s, i - 1, stops)

\* the name of the tag whose name starts at position i
NameAt(s, i) == SubSeq(s, i, i + RunLength(s, i, {" ", ">", "/", "\n"}) - 1)

RECURSIVE Walk(_, _, _, _)
\* the tags of s from the k-th mark on, at nesting depth d
Walk(s, m, k, d) ==
    IF k > Len(m) THEN <<>>
    ELSE LET i == m[k]
             next == IF i < Len(s) THEN CharAt(s, i + 1) ELSE ""
         IN  IF CharAt(s, i) = "<" /\ next \in Letters
             THEN <<[kind |-> "open", name |-> NameAt(s, i + 1), depth |-> d, at |-> i]>>
                  \o Walk(s, m, k + 1, d + 1)
             ELSE IF CharAt(s, i) = "<" /\ next = "/"
             THEN <<[kind |-> "close", name |-> NameAt(s, i + 2), depth |-> d - 1, at |-> i]>>
                  \o Walk(s, m, k + 1, d - 1)
             ELSE IF CharAt(s, i) = ">" /\ i > 1 /\ CharAt(s, i - 1) = "/"
             THEN Walk(s, m, k + 1, d - 1)
             ELSE Walk(s, m, k + 1, d)

\* the opening and closing tags of s in document order, each with its nesting depth
Tags(s) == Walk(s, Marks(s, {"<", ">"}), 1, 0)

IsOpen(tag) == tag.kind = "open"

\* the names of the elements among tags that are opened at nesting depth d
ElementsAt(tags, d) ==
    LET at == SelectSeq(tags, LAMBDA t : t.kind = "open" /\ t.depth = d)
    IN  [k \in 1..Len(at) |-> at[k].name]

\* the number of tags of a kind and name
CountTags(tags, kind, name) ==
    Cardinality({k \in 1..Len(tags) : tags[k].kind = kind /\ tags[k].name = name})

\* the attributes name="value" of s, in document order: a value starts after a quote
\* that follows "=", and ends before the next quote
Attributes(s) ==
    LET q == Marks(s, {"\""})
        starts == SelectSeq(Indices(Len(q) - 1), LAMBDA j : q[j] > 1 /\ CharAt(s, q[j] - 1) = "=")
    IN  [k \in 1..Len(starts) |->
            LET from == q[starts[k]]
            IN  [name |-> SubSeq(s, from - 1 - RunBack(s, from - 2, {" ", "\n"}), from - 2),
                 value |-> SubSeq(s, from + 1, q[starts[k] + 1] - 1)]]

\* the values of the attributes called name
AttrValues(attrs, name) ==
    LET at == SelectSeq(attrs, LAMBDA a : a.name = name)
    IN  [k \in 1..Len(at) |-> at[k].value]

EndsWith(s, suffix) == Len(s) >= Len(suffix) /\ SubSeq(s, Len(s) - Len(suffix) + 1, Len(s)) = suffix

StartsWith(s, prefix) == Len(s) >= Len(prefix) /\ SubSeq(s, 1, Len(prefix)) = prefix

\* the contents of the <text> elements, in document order: what lies between the end
\* of the k-th <text ...> tag and the k-th </text>
TextContents(s) ==
    LET gt == Marks(s, {">"})
        tags == Tags(s)
        opens == SelectSeq(tags, LAMBDA t : t.kind = "open" /\ t.name = "text")
        closes == SelectSeq(tags, LAMBDA t : t.kind = "close" /\ t.name = "text")
        TagEnd(i) == gt[1 + Cardinality({j \in 1..Len(gt) : gt[j] < i})]
    IN  [k \in 1..Len(opens) |-> SubSeq(s, TagEnd(opens[k].at) + 1, closes[k].at - 1)]

RECURSIVE Flatten(_)
Flatten(seqs) == IF seqs = <<>> THEN <<>> ELSE Head(seqs) \o Flatten(Tail(seqs))

(***************************************************************************)
(* The claims                                                              *)
(***************************************************************************)
\* a call of dxf_to_svg has returned
Done == pc = "done" /\ call = "dxf_to_svg"

Opts == unwrap_or_default(options)

\* the entity kinds that the specification gives a mapping
KindsWithMapping ==
    {"Line", "Circle", "Arc", "LwPolyline", "Polyline", "Ellipse", "Spline", "Text", "ModelPoint",
     "Insert", "Face3D", "Solid", "Trace", "Leader", "Helix", "Shape", "RotatedDimension"}

HasMapping(entity) == entity.kind \in KindsWithMapping

\* the number of vertices or control points of a polyline, spline or leader
NumPoints(entity) ==
    IF entity.kind = "Spline" THEN Len(entity.specific.control_points)
    ELSE Len(entity.specific.vertices)

PointKinds == {"LwPolyline", "Polyline", "Spline", "Leader"}

\* the element that the specification expects for an entity
ElementName(entity) ==
    CASE entity.kind \in {"Line", "RotatedDimension"} -> "line"
      [] entity.kind = "Insert" -> "use"
      [] entity.kind \in {"LwPolyline", "Polyline", "Leader"} -> "polyline"
      [] entity.kind \in {"Circle", "ModelPoint"} -> "circle"
      [] entity.kind \in {"Arc", "Spline", "Helix"} -> "path"
      [] entity.kind = "Ellipse" -> "ellipse"
      [] entity.kind = "Text" -> "text"
      [] entity.kind \in {"Face3D", "Solid", "Trace"} -> "polygon"
      [] entity.kind = "Shape" -> "rect"

\* the elements inside the root element (and inside the transform group when there is
\* one), without the background rectangle
BodyElements ==
    LET all == ElementsAt(Tags(svg), IF Opts.use_bounds THEN 2 ELSE 1)
    IN  IF Opts.background_color # "none" THEN Tail(all) ELSE all

\* C1: the output starts with the one opening <svg tag and ends with the one closing
\* </svg>; the transform group is opened exactly when use_bounds is set, and is then
\* closed right before </svg>, whatever iterations of the entity loop ended early.
C1_WellFormed ==
    Done =>
        LET tags == Tags(svg)
            last == Len(tags)
            groups == IF Opts.use_bounds THEN 1 ELSE 0
        IN  /\ StartsWith(svg, "<svg ")
            /\ EndsWith(svg, "</svg>")
            /\ tags[1] = [kind |-> "open", name |-> "svg", depth |-> 0, at |-> 1]
            /\ tags[last] = [kind |-> "close", name |-> "svg", depth |-> 0, at |-> Len(svg) - 5]
            /\ CountTags(tags, "open", "svg") = 1
            /\ CountTags(tags, "close", "svg") = 1
            /\ CountTags(tags, "open", "g") = groups
            /\ CountTags(tags, "close", "g") = groups
            /\ Opts.use_bounds =>
                   /\ tags[2].kind = "open" /\ tags[2].name = "g" /\ tags[2].depth = 1
                   /\ tags[last - 1] =
                          [kind |-> "close", name |-> "g", depth |-> 1, at |-> Len(svg) - 9]

\* a conversion with the transform group whose last iteration ended early
C1_Witness ==
    /\ Done
    /\ Opts.use_bounds
    /\ Len(entities) >= 2
    /\ Skipped(entities[Len(entities)])
    /\ EndsWith(svg, "</g></svg>")

\* the bounds of the entities have no positive finite extent
Degenerate ==
    LET b == calculate_bounds(entities)
        width == FSub(b.max_x, b.min_x)
        height == FSub(b.max_y, b.min_y)
    IN  \/ ~IsFinite(width) \/ ~IsFinite(height)
        \/ ~FGt(width, F(0)) \/ ~FGt(height, F(0))

NonFinite(str) == Contains(str, "NaN") \/ Contains(str, "inf")

\* C2: with use_bounds and degenerate bounds (no entity, zero width or zero height) the
\* viewBox of the output holds no infinity and no NaN.
C2_FiniteViewBox ==
    (Done /\ Opts.use_bounds /\ Degenerate) =>
        LET boxes == AttrValues(Attributes(svg), "viewBox")
        IN  \A k \in DOMAIN boxes : ~NonFinite(boxes[k])

\* C3: the arrowhead marker definition appears at most once in the output.
C3_MarkerAtMostOnce ==
    Done => Len(SelectSeq(Attributes(svg), LAMBDA a : a = [name |-> "id", value |-> "arrowhead"])) <= 1

\* the elements that C4 expects: one per supported entity with at least 2 points
C4_OnePerEntity(entity) ==
    IF HasMapping(entity) /\ ~(entity.kind \in PointKinds /\ NumPoints(entity) < 2)
    THEN <<ElementName(entity)>>
    ELSE <<>>

\* C4 as stated: the body holds exactly one element for each supported, non-degenerate
\* entity and none for the others, in input order.
C4_Original ==
    Done => BodyElements = Flatten([i \in 1..Len(entities) |-> C4_OnePerEntity(entities[i])])

\* the elements of an entity, leaving the marker definitions aside
C4_Group(entity) ==
    IF ~HasMapping(entity) THEN <<>>
    ELSE IF entity.kind \in {"LwPolyline", "Polyline", "Leader"} /\ NumPoints(entity) = 0 THEN <<>>
    ELSE IF entity.kind = "Spline" /\ NumPoints(entity) < 2 THEN <<>>
    ELSE IF entity.kind = "RotatedDimension" THEN <<"line", "text">>
    ELSE <<ElementName(entity)>>

IsNotDefs(name) == name # "defs"

\* C4 (amended): leaving the <defs> blocks of the leaders aside, the body is, in input
\* order, one element per entity, except that a RotatedDimension gives a <line> and a
\* <text>, and that unsupported entities, LwPolyline, Polyline and Leader entities
\* without a vertex and Spline entities with fewer than 2 control points give none.
C4_Amended ==
    Done => SelectSeq(BodyElements, IsNotDefs)
                = Flatten([i \in 1..Len(entities) |-> C4_Group(entities[i])])

\* a dimension followed by a line: three elements for two entities
C4_Witness ==
    /\ Done
    /\ Len(entities) = 2
    /\ entities[1].kind = "RotatedDimension"
    /\ entities[2].kind = "Line"
    /\ BodyElements = <<"line", "text", "line">>

\* C5: the output is the output for the list without its unsupported entities, and one
\* diagnostic line is printed for each unsupported entity.
C5_UnsupportedSkipped ==
    Done =>
        /\ svg = dxf_to_svg(SelectSeq(entities, HasMapping), options)
        /\ LET unsupported == SelectSeq(entities, LAMBDA e : ~HasMapping(e))
           IN  /\ Len(stdout) = Len(unsupported)
               /\ \A i \in DOMAIN stdout : Contains(stdout[i], unsupported[i].common.layer)

\* an unsupported entity between two lines, both rendered
C5_Witness ==
    /\ Done
    /\ Len(entities) = 3
    /\ entities[1].kind = "Line"
    /\ ~HasMapping(entities[2])
    /\ entities[3].kind = "Line"
    /\ CountTags(Tags(svg), "open", "line") = 2
    /\ Len(stdout) = 1

\* C6: without use_bounds the root element carries the viewBox "0 0 100 100" and the
\* output holds no transform group, no scale and no translate.
C6_FixedViewBox ==
    (Done /\ ~Opts.use_bounds) =>
        LET attrs == Attributes(svg)
            transforms == AttrValues(attrs, "transform")
        IN  /\ AttrValues(attrs, "viewBox") = <<"0 0 100 100">>
            /\ StartsWith(svg, "<svg xmlns=\"http://www.w3.org/2000/svg\" viewBox=\"0 0 100 100\"")
            /\ CountTags(Tags(svg), "open", "g") = 0
            /\ \A k \in DOMAIN transforms :
                   ~Contains(transforms[k], "scale(") /\ ~Contains(transforms[k], "translate(")

\* a conversion without use_bounds, of no entity and of some entities
C6_Witness ==
    /\ Done
    /\ ~Opts.use_bounds
    /\ Len(entities) = 0
    /\ AttrValues(Attributes(svg), "viewBox") = <<"0 0 100 100">>

\* str is text content without a raw special character
C7_NoRawSpecial(str) ==
    /\ \A ch \in {"<", ">", "\"", "'"} : ~Contains(str, ch)
    /\ \A i \in {j \in 1..Len(str) : CharAt(str, j) = "&"} :
           \E name \in {"amp;", "lt;", "gt;", "quot;", "apos;"} :
               SubSeq(str, i + 1, i + Len(name)) = name

\* C7: the content of every <text> element of the output (the value of a Text, the
\* measurement text of a RotatedDimension) holds no raw < > & " or '.
C7_TextEscaped ==
    Done => \A k \in DOMAIN TextContents(svg) : C7_NoRawSpecial(TextContents(svg)[k])

\* the replacement of one character
C8_Entity(ch) ==
    CASE ch = "&" -> "&amp;"
      [] ch = "<" -> "&lt;"
      [] ch = ">" -> "&gt;"
      [] ch = "\"" -> "&quot;"
      [] ch = "'" -> "&apos;"
      [] OTHER -> ch

RECURSIVE C8_Concat(_)
C8_Concat(strs) == IF strs = <<>> THEN "" ELSE Head(strs) \o C8_Concat(Tail(strs))

\* every character of str replaced once, in one pass
C8_EscapeEach(str) == C8_Concat([i \in 1..Len(str) |-> C8_Entity(CharAt(str, i))])

C8_HasSpecial(str) == \E ch \in {"&", "<", ">", "\"", "'"} : Contains(str, ch)

\* C8: escape_xml_text replaces each & < > " ' once by its entity and leaves every other
\* character alone; "Test & <example>" gives "Test &amp; &lt;example&gt;"; escaping the
\* result again changes it exactly when the input holds one of the five characters.
C8_EscapeEachOnce ==
    (pc = "done" /\ call = "escape_xml_text") =>
        /\ escaped = C8_EscapeEach(text)
        /\ text = "Test & <example>" => escaped = "Test &amp; &lt;example&gt;"
        /\ C8_HasSpecial(text) <=> escape_xml_text(escaped) # escaped

\* the example of the test, escaped
C8_Witness ==
    /\ pc = "done"
    /\ call = "escape_xml_text"
    /\ text = "Test & <example>"
    /\ escaped = "Test &amp; &lt;example&gt;"

\* the color that C9 expects
C9_Color(entity) ==
    IF \A i \in 1..Len(entity.common.color_name) :
           CharAt(entity.common.color_name, i) \in {" ", "\t", "\n", "\r"}
    THEN Opts.default_color
    ELSE entity.common.color_name

\* the colors of the elements of an entity that take a stroke (<use> takes none)
C9_Strokes(entity) ==
    IF entity.kind = "Insert" THEN <<>>
    ELSE [k \in 1..Len(C4_Group(entity)) |-> C9_Color(entity)]

\* C9: the stroke colors of the output are, in order, those of the rendered entities:
\* the color name of the entity unless it is blank, then the default color; every
\* stroke-width is the stroke_width of the options.
C9_StrokeColor ==
    Done =>
        LET attrs == Attributes(svg)
            strokes == AttrValues(attrs, "stroke")
            widths == AttrValues(attrs, "stroke-width")
        IN  /\ strokes = Flatten([i \in 1..Len(entities) |-> C9_Strokes(entities[i])])
            /\ Len(widths) = Len(strokes)
            /\ \A k \in DOMAIN widths : widths[k] = Display(Opts.stroke_width)

\* the line of the test, without a color, under the default options
C9_Witness ==
    /\ Done
    /\ options = None
    /\ Len(entities) = 2
    /\ entities[1].kind = "Line"
    /\ entities[1].common.color_name = ""
    /\ entities[2].kind = "ModelPoint"
    /\ AttrValues(Attributes(svg), "stroke") = <<"black", "black">>

C10_Entities(kinds, least) ==
    {i \in 1..Len(entities) : entities[i].kind \in kinds /\ NumPoints(entities[i]) >= least}

C10_Others(kinds) == {i \in 1..Len(entities) : entities[i].kind \in kinds}

\* C10 as stated: only the polylines, leaders and splines with at least 2 points give
\* an element.
C10_Original ==
    Done =>
        /\ CountTags(Tags(svg), "open", "polyline")
               = Cardinality(C10_Entities({"LwPolyline", "Polyline", "Leader"}, 2))
        /\ CountTags(Tags(svg), "open", "path")
               = Cardinality(C10_Entities({"Spline"}, 2)) + Cardinality(C10_Others({"Arc", "Helix"}))

\* C10 (amended): a Spline with fewer than 2 control points and an LwPolyline, Polyline
\* or Leader without a vertex give no element; an LwPolyline, Polyline or Leader with
\* one vertex gives a <polyline>.
C10_Amended ==
    Done =>
        /\ CountTags(Tags(svg), "open", "polyline")
               = Cardinality(C10_Entities({"LwPolyline", "Polyline", "Leader"}, 1))
        /\ CountTags(Tags(svg), "open", "path")
               = Cardinality(C10_Entities({"Spline"}, 2)) + Cardinality(C10_Others({"Arc", "Helix"}))

\* a spline with one control point, skipped, and a polyline with one vertex, rendered
C10_Witness ==
    /\ Done
    /\ Len(entities) = 2
    /\ entities[1].kind = "Spline"
    /\ NumPoints(entities[1]) = 1
    /\ entities[2].kind = "LwPolyline"
    /\ NumPoints(entities[2]) = 1
    /\ BodyElements = <<"polyline">>

(***************************************************************************)
(* C11: is_angle_in_arc                                                    *)
(***************************************************************************)
ArcDone == pc = "done" /\ call = "is_angle_in_arc"

\* an angle brought into [0, 2 PI)
Normalized(a) == a % (2 * PI)

\* a lies on the span from s to e travelled in the increasing direction (all three in
\* [0, 2 PI)), going through the 0 / 2 PI boundary when s > e
OnSpan(a, s, e) == IF s <= e THEN s <= a /\ a <= e ELSE a >= s \/ a <= e

\* C11: for all angle, start and end values, negative ones and ones of 2 PI or more
\* included, is_angle_in_arc returns true exactly when the angle, normalized into
\* [0, 2 PI), lies on the span from the normalized start to the normalized end
C11_NormalizedSpan ==
    ArcDone =>
        in_arc = OnSpan(Normalized(arc_args.angle), Normalized(arc_args.start), Normalized(arc_args.end))

\* the same statement for angles that are not negative, where the remainder normalizes
C11_NonNegativeSpan ==
    ArcDone /\ arc_args.angle >= 0 /\ arc_args.start >= 0 /\ arc_args.end >= 0 =>
        in_arc = OnSpan(Normalized(arc_args.angle), Normalized(arc_args.start), Normalized(arc_args.end))

\* the example of an arc through the boundary: start 3 PI / 2, end PI / 2
C11_Example ==
    ArcDone /\ arc_args.start = 12 /\ arc_args.end = 4 =>
        /\ arc_args.angle = 0 => in_arc
        /\ arc_args.angle = PI => ~in_arc

(***************************************************************************)
(* C12: the path of a Spline                                               *)
(***************************************************************************)
\* the entities that give a <path>, in input order
C12_PathEntities ==
    SelectSeq(entities, LAMBDA e : \/ e.kind \in {"Arc", "Helix"}
                                   \/ e.kind = "Spline" /\ NumPoints(e) >= 2)

\* control point j (counted from 0), as the path writes it
C12_Point(points, j) == Fmt3(points[j + 1].x) \o "," \o Fmt3(points[j + 1].y)

\* command k (counted from 0): C with the control points 3k + 1, 3k + 2, 3k + 3
C12_Command(points, k) ==
    " C " \o C12_Point(points, 3 * k + 1) \o " " \o C12_Point(points, 3 * k + 2)
          \o " " \o C12_Point(points, 3 * k + 3)

\* M at control point 0, then floor((n - 1) / 3) commands
C12_Path(points) ==
    "M " \o C12_Point(points, 0)
         \o C8_Concat([k \in 1..((Len(points) - 1) \div 3) |-> C12_Command(points, k - 1)])

\* C12: a Spline with n >= 2 control points gives one path that starts with M at control
\* point 0 followed by exactly floor((n - 1) / 3) C commands, command k using the control
\* points 3k + 1, 3k + 2, 3k + 3 in that order; the loop index takes the values 1, 4, 7, ...
\* and no index at or beyond n is read
C12_SplinePath ==
    Done =>
        LET ds == AttrValues(Attributes(svg), "d")
            ps == C12_PathEntities
        IN  /\ Len(ds) = Len(ps)
            /\ \A j \in 1..Len(ps) :
                   ps[j].kind = "Spline" =>
                       LET points == ps[j].specific.control_points
                           n == Len(points)
                       IN  /\ ds[j] = C12_Path(points)
                           /\ SplineIndices(n, 1) = [k \in 1..((n - 1) \div 3) |-> 3 * (k - 1) + 1]
                           /\ \A i \in SplineReads(n) : i < n

\* a spline with two whole groups of three and one or two control points left over
C12_Witness ==
    /\ Done
    /\ Len(entities) = 1
    /\ entities[1].kind = "Spline"
    /\ NumPoints(entities[1]) >= 7
    /\ (NumPoints(entities[1]) - 1) % 3 # 0
    /\ AttrValues(Attributes(svg), "d") = <<C12_Path(entities[1].specific.control_points)>>

(***************************************************************************)
(* C13: the background rectangle                                           *)
(***************************************************************************)
\* the padded bounds of the call
C13_Bounds == with_padding(calculate_bounds(entities), Opts.padding)

\* the padded bounds have a finite positive width and height
C13_NonDegenerate ==
    LET width == FSub(C13_Bounds.max_x, C13_Bounds.min_x)
        height == FSub(C13_Bounds.max_y, C13_Bounds.min_y)
    IN  /\ IsFinite(width) /\ IsFinite(height)
        /\ FGt(width, F(0)) /\ FGt(height, F(0))

\* x and y are the same number
C13_Same(x, y) == ~IsNaN(x) /\ ~IsNaN(y) /\ ~FLt(x, y) /\ ~FLt(y, x)

\* where the point (x, y) goes under transform="scale(..) translate(..)": the
\* translation is applied first, then the scaling
C13_Image(t, x, y) ==
    [x |-> FMul(t.scale_x, FAdd(x, t.translate_x)), y |-> FMul(t.scale_y, FAdd(y, t.translate_y))]

\* the number of <rect> elements that are not the background: one for each Shape
C13_Shapes == Cardinality({i \in 1..Len(entities) : entities[i].kind = "Shape"})

\* with background_color "none" no background rectangle is written
C13_NoneNoRect ==
    (Done /\ Opts.background_color = "none") =>
        CountTags(Tags(svg), "open", "rect") = C13_Shapes

\* the output carries the numbers of Transform and of BackgroundRect: the first element
\* with an x attribute is the background <rect>, and the group has the transform
C13_AsWritten ==
    (Done /\ Opts.background_color # "none" /\ Opts.use_bounds) =>
        LET attrs == Attributes(svg)
            k == CHOOSE i \in 1..Len(attrs) :
                     attrs[i].name = "x" /\ \A j \in 1..(i - 1) : attrs[j].name # "x"
            t == Transform(C13_Bounds)
            r == BackgroundRect(C13_Bounds)
        IN  /\ CountTags(Tags(svg), "open", "rect") = C13_Shapes + 1
            /\ SubSeq(attrs, k, k + 4)
                   = << [name |-> "x", value |-> Display(r.x)],
                        [name |-> "y", value |-> Display(r.y)],
                        [name |-> "width", value |-> Display(r.width)],
                        [name |-> "height", value |-> Display(r.height)],
                        [name |-> "fill", value |-> Opts.background_color] >>
            /\ AttrValues(attrs, "transform")[1]
                   = "scale(" \o Display(t.scale_x) \o ", " \o Display(t.scale_y)
                     \o ") translate(" \o Display(t.translate_x) \o ", "
                     \o Display(t.translate_y) \o ")"

\* the background rectangle spans [min_x, max_x] and lands on [0, 1000] horizontally
C13_Horizontal ==
    (Done /\ Opts.background_color # "none" /\ Opts.use_bounds /\ C13_NonDegenerate) =>
        LET b == C13_Bounds
            t == Transform(b)
            r == BackgroundRect(b)
        IN  /\ C13_Same(r.x, b.min_x)
            /\ C13_Same(FAdd(r.x, r.width), b.max_x)
            /\ C13_Same(C13_Image(t, r.x, r.y).x, F(0))
            /\ C13_Same(C13_Image(t, FAdd(r.x, r.width), r.y).x, F(1000))

\* C13: with use_bounds and a background_color other than "none", for non-degenerate
\* bounds, the background <rect> covers [min_x, max_x] x [min_y, max_y] of the padded
\* bounds in drawing coordinates, and under the transform of the group it lands on
\* the canvas rectangle from (0, 0) to (1000, 1000 * height / width); with
\* background_color "none" no background rectangle is written
C13_BackgroundCoversBounds ==
    /\ C13_NoneNoRect
    /\ C13_AsWritten
    /\ C13_Horizontal
    /\ (Done /\ Opts.background_color # "none" /\ Opts.use_bounds /\ C13_NonDegenerate) =>
           LET b == C13_Bounds
               t == Transform(b)
               r == BackgroundRect(b)
               top == C13_Image(t, r.x, r.y).y
               bottom == C13_Image(t, r.x, FAdd(r.y, r.height)).y
           IN  /\ C13_Same(r.y, b.min_y)
               /\ C13_Same(FAdd(r.y, r.height), b.max_y)
               /\ C13_Same(FMin(top, bottom), F(0))
               /\ C13_Same(FMax(top, bottom), FDiv(FMul(F(1000), r.height), r.width))


====
